---- MODULE Spec2Model ----
(***************************************************************************)
(* Compound browser: the fetch client (frontend/src/api.ts) and the view   *)
(* of frontend/src/App.tsx over the useCompounds view-state coordinator.   *)
(* The coordinator (hooks/useCompounds) is modelled from its specification *)
(* (state, handlers and failure semantics of the view-state coordinator).  *)
(*                                                                         *)
(* Spec        the coordinator, its handlers and the fetches in flight     *)
(* SpecClient  fetchCompounds alone, called with every filter object       *)
(***************************************************************************)
EXTENDS Integers, Sequences, FiniteSets, TLC

\* ------------------------------------------------------------- bounds
MaxCalls == 2          \* fetchCompounds calls made by the coordinator in one run
MaxMol == 2            \* mol_idx values are 1..MaxMol
MaxTotalPages == 1     \* total_pages a response may carry

\* ------------------------------------------------ program constants
DefaultPage == 1
DefaultPerPage == 50

\* ---------------------------------------------------------- JS objects
\* A JS object is a function from its own keys to values.
EmptyObject == << >>

SetProp(obj, k, v) ==
  [x \in (DOMAIN obj) \cup {k} |-> IF x = k THEN v ELSE obj[x]]

\* {...obj, ...src}: src's own properties are assigned one after another.
RECURSIVE SpreadKeys(_, _, _)
SpreadKeys(obj, src, keys) ==
  IF keys = {} THEN obj
  ELSE LET k == CHOOSE x \in keys : TRUE
       IN SpreadKeys(SetProp(obj, k, src[k]), src, keys \ {k})

Spread(obj, src) == SpreadKeys(obj, src, DOMAIN src)

\* ------------------------------------------------------- fetch client
ParamKeys == {"page", "per_page", "name"}
Pages == 1..(MaxTotalPages + 1)
ValuesOf(k) ==
  IF k = "page" THEN Pages
  ELSE IF k = "per_page" THEN {10, 100}
  ELSE {"a"}

\* every filter object, with or without page / per_page of its own
WithOptional(objs, k) ==
  objs \cup {SetProp(o, k, v) : o \in objs, v \in ValuesOf(k)}

FilterObjects ==
  WithOptional(WithOptional(WithOptional({EmptyObject}, "name"), "per_page"), "page")

ItemsUrl == "API_BASE_URL/items"

\* { page: 1, per_page: 50, ...params } with the spread written first
RequestParamsSpreadFirst(params) ==
  SetProp(SetProp(Spread(EmptyObject, params), "page", DefaultPage),
          "per_page", DefaultPerPage)

\* { page: 1, per_page: 50, ...params }
RequestParams(params) ==
  Spread(SetProp(SetProp(EmptyObject, "page", DefaultPage),
                 "per_page", DefaultPerPage),
         params)

\* axios.get(url, { params })
AxiosGet(params) == [url |-> ItemsUrl, params |-> RequestParams(params)]

\* ------------------------------------------------------ response shapes
Compounds == [mol_idx : 1..MaxMol]

\* ordered sequences of compounds, each mol_idx (a unique identifier) at most once
ItemLists ==
  {s \in UNION {[1..n -> Compounds] : n \in 0..MaxMol} :
     \A i, j \in DOMAIN s : s[i].mol_idx = s[j].mol_idx => i = j}

NoData == [kind |-> "null"]
NoCompound == [kind |-> "null"]

\* ApiResponse: the page envelope (total_items is carried to the table untouched)
ApiResponses ==
  [kind : {"ApiResponse"}, items : ItemLists, page : Pages,
   total_pages : 1..MaxTotalPages]

\* the backend answers a request for page n with the envelope of page n
ServerResponses(get) == {b \in ApiResponses : b.page = get.params.page}

Errors == {"Network Error", "status 500"}

\* what the awaited axios.get settles with
AxiosFulfilled(body) == [settled |-> "fulfilled", data |-> body, error |-> "none"]
AxiosRejected(e) == [settled |-> "rejected", data |-> NoData, error |-> e]

\* before the await has settled / before fetchCompounds has finished
NoOutcome == [settled |-> "pending", data |-> NoData, error |-> "none"]
NoResult == [kind |-> "none", value |-> NoData, error |-> "none", logged |-> << >>]

\* the catch block answering with an empty page instead of re-raising
FetchCompoundsSettleSwallow(outcome) ==
  IF outcome.settled = "fulfilled"
  THEN [kind |-> "return", value |-> outcome.data, error |-> "none", logged |-> << >>]
  ELSE [kind |-> "return",
        value |-> [kind |-> "ApiResponse", items |-> << >>, page |-> 1,
                   total_pages |-> 1],
        error |-> "none", logged |-> <<outcome.error>>]

\* the rest of fetchCompounds once the await settles: return response.data, or
\* console.error and throw the caught error
FetchCompoundsSettle(outcome) ==
  IF outcome.settled = "fulfilled"
  THEN [kind |-> "return", value |-> outcome.data, error |-> "none", logged |-> << >>]
  ELSE [kind |-> "throw", value |-> NoData, error |-> outcome.error,
        logged |-> <<outcome.error>>]

\* ------------------------------------------------------------- the view
\* findIndex with a predicate that matches no item
FindIndexNeverEqual(list, mol_idx) == -1

\* allFilteredCompounds.findIndex(item => item.mol_idx === mol_idx), 0-based, -1 if none
FindIndex(list, mol_idx) ==
  LET hits == {i \in 1..Len(list) : list[i].mol_idx = mol_idx}
  IN IF hits = {} THEN -1
     ELSE (CHOOSE i \in hits : \A j \in hits : i <= j) - 1

\* list[i] of a JS array, 0-based
At(list, i) == list[i + 1]

\* history: kind is "next" or "previous" after that handler (from: the compound
\* selected before it), "fetchFailed" after a rejected request, "other" otherwise
Event(kind, from) == [kind |-> kind, from |-> from]

VARIABLES
  data,                  \* ApiResponse | null
  loading,
  selectedCompound,      \* Compound | null
  allFilteredCompounds,
  currentFilters,
  currentPageNumber,
  inflight,              \* fetchCompounds calls awaiting their response; startedOn is
                         \* history: the value of dataFrom when the call was made
  nCalls,                \* fetchCompounds calls made so far
  lastSuccess,           \* history: the last ApiResponse a fetch returned
  dataFrom,              \* history: id of the call whose response data holds, 0 for null
  lastEvent,             \* history: what ran last, see Event
  cPc, cArg, cGets, cAxios, cResult   \* one fetchCompounds call on its own

coordVars ==
  <<data, loading, selectedCompound, allFilteredCompounds, currentFilters,
    currentPageNumber, inflight, nCalls, lastSuccess, dataFrom, lastEvent>>
clientVars == <<cPc, cArg, cGets, cAxios, cResult>>
vars == <<coordVars, clientVars>>

\* ------------------------------------------------------ App.tsx render
\* const currentPage = selectedCompound ? "detail" : "home"
CurrentView == IF selectedCompound = NoCompound THEN "home" ELSE "detail"

\* a || b of JS on an optional number: undefined and 0 are falsy
JsOr(opt, dflt) ==
  IF opt = {} \/ opt = {0} THEN dflt ELSE CHOOSE v \in opt : TRUE

\* data?.page
OptPage == IF data = NoData THEN {} ELSE {data.page}

\* the table showing the page number the coordinator last asked for
TablePageFromState == currentPageNumber

\* ResultsTable currentPage={data?.page || 1}
TablePage == JsOr(OptPage, 1)

\* ResultsTable data={data?.items || []}
TableRows == IF data = NoData THEN << >> ELSE data.items

\* DetailPage currentIndex / totalCount
DetailCurrentIndex == FindIndex(allFilteredCompounds, selectedCompound.mol_idx)
DetailTotalCount == Len(allFilteredCompounds)

\* --------------------------------------------- useCompounds: fetching
\* the filters the sidebar hands to onApplyFilters
SidebarFilters == WithOptional({EmptyObject}, "name")

\* setLoading(true); await fetchCompounds({...filters, page})
LoadData(filters, page, origin) ==
  /\ nCalls < MaxCalls
  /\ nCalls' = nCalls + 1
  /\ loading' = TRUE
  /\ inflight' = inflight \cup
       {[id |-> nCalls + 1,
         get |-> AxiosGet(SetProp(filters, "page", page)),
         origin |-> origin,
         startedOn |-> dataFrom]}

\* the first load, made when the coordinator is mounted
Mount ==
  /\ nCalls = 0
  /\ LoadData(currentFilters, currentPageNumber, "initial")
  /\ lastEvent' = Event("other", NoCompound)
  /\ UNCHANGED <<data, selectedCompound, allFilteredCompounds, currentFilters,
                 currentPageNumber, lastSuccess, dataFrom>>

\* handleApplyFilters(filters)
ApplyFilters(filters) ==
  /\ nCalls > 0
  /\ CurrentView = "home"
  /\ currentFilters' = filters
  /\ currentPageNumber' = 1
  /\ LoadData(filters, 1, "applyFilters")
  /\ lastEvent' = Event("other", NoCompound)
  /\ UNCHANGED <<data, selectedCompound, allFilteredCompounds, lastSuccess,
                 dataFrom>>

\* handlePageChange(page)
ChangePage(page) ==
  /\ nCalls > 0
  /\ CurrentView = "home"
  /\ currentPageNumber' = page
  /\ LoadData(currentFilters, page, "changePage")
  /\ lastEvent' = Event("other", NoCompound)
  /\ UNCHANGED <<data, selectedCompound, allFilteredCompounds, currentFilters,
                 lastSuccess, dataFrom>>

\* the awaited fetchCompounds of call r settles and the handler runs to its end
Settle(r, outcome) ==
  LET res == FetchCompoundsSettle(outcome)
  IN /\ r \in inflight
     /\ inflight' = inflight \ {r}
     /\ loading' = FALSE
     /\ lastEvent' = Event(IF outcome.settled = "rejected" THEN "fetchFailed"
                                ELSE "other", NoCompound)
     /\ IF res.kind = "return"
        THEN /\ data' = res.value
             /\ allFilteredCompounds' = res.value.items
             /\ lastSuccess' = res.value
             /\ dataFrom' = r.id
        ELSE UNCHANGED <<data, allFilteredCompounds, lastSuccess, dataFrom>>
     /\ UNCHANGED <<selectedCompound, currentFilters, currentPageNumber, nCalls>>

FetchSucceeds(r, body) == Settle(r, AxiosFulfilled(body))
FetchFails(r, e) == Settle(r, AxiosRejected(e))

\* -------------------------------------------- useCompounds: selection
\* handleViewDetail(compound), from a row of the table
ViewDetail(compound) ==
  /\ CurrentView = "home"
  /\ selectedCompound' = compound
  /\ lastEvent' = Event("other", NoCompound)
  /\ UNCHANGED <<data, loading, allFilteredCompounds, currentFilters,
                 currentPageNumber, inflight, nCalls, lastSuccess, dataFrom>>

\* handleBack()
Back ==
  /\ CurrentView = "detail"
  /\ selectedCompound' = NoCompound
  /\ lastEvent' = Event("other", NoCompound)
  /\ UNCHANGED <<data, loading, allFilteredCompounds, currentFilters,
                 currentPageNumber, inflight, nCalls, lastSuccess, dataFrom>>

\* the compound handleNextCompound() selects
NextTarget(list, sel) ==
  LET i == FindIndex(list, sel.mol_idx)
  IN IF i < Len(list) - 1 THEN At(list, i + 1) ELSE sel

\* the compound handlePreviousCompound() selects
PreviousTarget(list, sel) ==
  LET i == FindIndex(list, sel.mol_idx)
  IN IF i > 0 THEN At(list, i - 1) ELSE sel

NextCompound ==
  /\ CurrentView = "detail"
  /\ selectedCompound' = NextTarget(allFilteredCompounds, selectedCompound)
  /\ lastEvent' = Event("next", selectedCompound)
  /\ UNCHANGED <<data, loading, allFilteredCompounds, currentFilters,
                 currentPageNumber, inflight, nCalls, lastSuccess, dataFrom>>

PreviousCompound ==
  /\ CurrentView = "detail"
  /\ selectedCompound' = PreviousTarget(allFilteredCompounds, selectedCompound)
  /\ lastEvent' = Event("previous", selectedCompound)
  /\ UNCHANGED <<data, loading, allFilteredCompounds, currentFilters,
                 currentPageNumber, inflight, nCalls, lastSuccess, dataFrom>>

\* ---------------------------------------------------------------- Spec
ClientIdle ==
  /\ cPc = "idle"
  /\ cArg = EmptyObject
  /\ cGets = << >>
  /\ cAxios = NoOutcome
  /\ cResult = NoResult

CoordInit ==
  /\ data = NoData
  /\ loading = FALSE
  /\ selectedCompound = NoCompound
  /\ allFilteredCompounds = << >>
  /\ currentFilters = EmptyObject
  /\ currentPageNumber = 1
  /\ inflight = {}
  /\ nCalls = 0
  /\ lastSuccess = NoData
  /\ dataFrom = 0
  /\ lastEvent = Event("other", NoCompound)

Init == CoordInit /\ ClientIdle

Next ==
  \/ (Mount /\ UNCHANGED clientVars)
  \/ (\E f \in SidebarFilters : ApplyFilters(f) /\ UNCHANGED clientVars)
  \/ (\E p \in Pages : ChangePage(p) /\ UNCHANGED clientVars)
  \/ (\E r \in inflight : \E b \in ServerResponses(r.get) :
        FetchSucceeds(r, b) /\ UNCHANGED clientVars)
  \/ (\E r \in inflight, e \in Errors : FetchFails(r, e) /\ UNCHANGED clientVars)
  \/ (\E i \in 1..Len(TableRows) : ViewDetail(TableRows[i]) /\ UNCHANGED clientVars)
  \/ (Back /\ UNCHANGED clientVars)
  \/ (NextCompound /\ UNCHANGED clientVars)
  \/ (PreviousCompound /\ UNCHANGED clientVars)

Spec == Init /\ [][Next]_vars

\* ---------------------------------------------------------- SpecClient
\* fetchCompounds(params) up to its await: one axios.get
ClientCall(params) ==
  /\ cPc = "idle"
  /\ cPc' = "awaiting"
  /\ cArg' = params
  /\ cGets' = Append(cGets, AxiosGet(params))
  /\ UNCHANGED <<cAxios, cResult>>

\* the await settles and fetchCompounds returns or throws
ClientSettle(outcome) ==
  LET res == FetchCompoundsSettle(outcome)
  IN /\ cPc = "awaiting"
     /\ cAxios' = outcome
     /\ cResult' = res
     /\ cPc' = IF res.kind = "return" THEN "returned" ELSE "thrown"
     /\ UNCHANGED <<cArg, cGets>>

ClientResolve(body) == ClientSettle(AxiosFulfilled(body))
ClientReject(e) == ClientSettle(AxiosRejected(e))

\* the caller has taken the result; the next call starts afresh
ClientReset ==
  /\ cPc \in {"returned", "thrown"}
  /\ cPc' = "idle"
  /\ cArg' = EmptyObject
  /\ cGets' = << >>
  /\ cAxios' = NoOutcome
  /\ cResult' = NoResult

NextClient ==
  \/ (\E f \in FilterObjects : ClientCall(f) /\ UNCHANGED coordVars)
  \/ (\E b \in ApiResponses : ClientResolve(b) /\ UNCHANGED coordVars)
  \/ (\E e \in Errors : ClientReject(e) /\ UNCHANGED coordVars)
  \/ (ClientReset /\ UNCHANGED coordVars)

SpecClient == Init /\ [][NextClient]_vars

\* ============================================================== claims

\* C1 (SpecClient): the one GET of a call fetchCompounds(f) goes to {BASE_URL}/items
\* and its query parameters are {page: 1, per_page: 50} overridden and extended
\* by f: every key of f with f's value, the defaults only where f has no such key.
C1_QueryIsDefaultsOverriddenByFilters ==
  cPc # "idle" =>
    /\ Len(cGets) = 1
    /\ cGets[1].url = ItemsUrl
    /\ cGets[1].params =
         [k \in {"page", "per_page"} \cup DOMAIN cArg |->
            IF k \in DOMAIN cArg THEN cArg[k]
            ELSE IF k = "page" THEN 1 ELSE 50]

\* a call whose filters carry a page of their own and no per_page
C1_Witness ==
  /\ cPc = "awaiting"
  /\ DOMAIN cArg = {"page", "name"}
  /\ cArg["page"] = 2
  /\ cGets[1].params["page"] = 2
  /\ cGets[1].params["per_page"] = 50
  /\ cGets[1].params["name"] = "a"

\* C2 as claimed: after a failed fetch loading is false and data is the value it
\* had when that fetch was started. Each response is a fresh object, so data is
\* that value exactly when it still holds the response it held then.
C2_FailedFetchLeavesDataAsAtStart ==
  [][lastEvent'.kind = "fetchFailed" =>
       /\ loading' = FALSE
       /\ \A r \in inflight \ inflight' : dataFrom' = r.startedOn]_vars

\* C2 amended: a failed fetch leaves loading false and data as it was just
\* before the failure was delivered.
C2_FailedFetchLeavesData ==
  [][lastEvent'.kind = "fetchFailed" =>
       /\ loading' = FALSE
       /\ data' = data
       /\ dataFrom' = dataFrom]_vars

\* the second fetch has just failed and data still holds the first response
C2_Witness ==
  /\ lastEvent.kind = "fetchFailed"
  /\ inflight = {}
  /\ nCalls = 2
  /\ dataFrom = 1
  /\ data # NoData
  /\ loading = FALSE

\* C3: the page number handed to the results table is the page of the last
\* successful ApiResponse, 1 before any response; also while a fetch is in flight
\* and after a failed one.
C3_TablePageIsLastResponsePage ==
  CurrentView = "home" =>
    TablePage = (IF lastSuccess = NoData THEN 1 ELSE lastSuccess.page)

\* changePage(2) is in flight over a response for page 1
C3_Witness ==
  /\ CurrentView = "home"
  /\ inflight # {}
  /\ lastSuccess # NoData
  /\ lastSuccess.page = 1
  /\ currentPageNumber = 2
  /\ TablePage = 1

\* C4: a stale response never overwrites newer state: data never passes from the
\* response to a later call to a different response to an earlier call.
C4_NoStaleOverwrite ==
  [][dataFrom' < dataFrom => data' = data]_vars

\* C5: applyFilters(filters) replaces the filters, resets the page to 1 and starts
\* a fetch; loading is true while that fetch is in flight and false once it settles.
C5_ApplyFiltersLoadingUntilSettled ==
  [][/\ \A f \in SidebarFilters :
          ApplyFilters(f) =>
            /\ currentFilters' = f
            /\ currentPageNumber' = 1
            /\ \E r \in inflight' \ inflight : r.origin = "applyFilters"
     /\ \A r \in inflight' : r.origin = "applyFilters" => loading' = TRUE
     /\ \A r \in inflight \ inflight' : r.origin = "applyFilters" => loading' = FALSE
    ]_vars

\* C6: nextCompound() on the last entry and previousCompound() on the first leave
\* selectedCompound as it was: no move, no wrap-around.
C6_NavigationClampsAtEnds ==
  LET n == Len(allFilteredCompounds)
  IN /\ (lastEvent.kind = "next" /\ n > 0
           /\ allFilteredCompounds[n] = lastEvent.from)
          => selectedCompound = lastEvent.from
     /\ (lastEvent.kind = "previous" /\ n > 0
           /\ allFilteredCompounds[1] = lastEvent.from)
          => selectedCompound = lastEvent.from

\* nextCompound() has run on the last of two entries
C6_Witness ==
  /\ lastEvent.kind = "next"
  /\ Len(allFilteredCompounds) = 2
  /\ allFilteredCompounds[2] = lastEvent.from
  /\ selectedCompound = lastEvent.from

\* C7: with the selected compound at index i, nextCompound() (i not last) selects
\* entry i+1 and previousCompound() (i > 0) entry i-1; previousCompound() after
\* that nextCompound() selects the original compound again.
C7_NavigationMovesToAdjacent ==
  \A i \in 1..Len(allFilteredCompounds) :
    (/\ lastEvent.from # NoCompound
     /\ allFilteredCompounds[i].mol_idx = lastEvent.from.mol_idx)
    => /\ (lastEvent.kind = "next" /\ i < Len(allFilteredCompounds))
            => /\ selectedCompound = allFilteredCompounds[i + 1]
               /\ PreviousTarget(allFilteredCompounds, selectedCompound)
                    = lastEvent.from
       /\ (lastEvent.kind = "previous" /\ i > 1)
            => selectedCompound = allFilteredCompounds[i - 1]

\* previousCompound() has moved the selection from the second entry to the first
C7_Witness ==
  /\ lastEvent.kind = "previous"
  /\ Len(allFilteredCompounds) = 2
  /\ allFilteredCompounds[2] = lastEvent.from
  /\ selectedCompound = allFilteredCompounds[1]

\* C8: after a successful response with total_pages = T, changePage never issues a
\* request for a page greater than T.
C8_ChangePageStaysInRange ==
  [][\A p \in Pages :
       (ChangePage(p) /\ data # NoData) =>
         \A r \in inflight' \ inflight :
           r.get.params["page"] <= data.total_pages]_vars

\* C9 (SpecClient): one call issues exactly one GET; a fulfilled request makes the
\* call return the response body, a rejected one makes it throw (and log) the very
\* error it caught: no retry, no default result.
C9_OneGetThenBodyOrSameError ==
  cPc \in {"returned", "thrown"} =>
    /\ Len(cGets) = 1
    /\ cAxios.settled = "fulfilled" =>
         /\ cPc = "returned"
         /\ cResult.kind = "return"
         /\ cResult.value = cAxios.data
    /\ cAxios.settled = "rejected" =>
         /\ cPc = "thrown"
         /\ cResult.kind = "throw"
         /\ cResult.error = cAxios.error
         /\ cResult.logged = <<cAxios.error>>

\* a call has thrown the HTTP error its request was rejected with
C9_Witness ==
  /\ cPc = "thrown"
  /\ cAxios = AxiosRejected("status 500")
  /\ cResult.error = "status 500"
  /\ Len(cGets) = 1

\* C10: whenever the detail view is rendered, selectedCompound is found in
\* allFilteredCompounds, so 0 <= currentIndex < totalCount.
C10_DetailIndexInRange ==
  CurrentView = "detail" =>
    (0 <= DetailCurrentIndex /\ DetailCurrentIndex < DetailTotalCount)

====
